---- MODULE Spec2Model ----
(***************************************************************************)
(* Admin form validation of the subscriptions app                          *)
(* (license_manager/apps/subscriptions/forms.py).                          *)
(*                                                                         *)
(* Four request-scoped operations are modelled, each after Django's base   *)
(* form validation has passed (the `super().is_valid()` early return):     *)
(*   SubscriptionPlanForm.is_valid          -> ValidateSubscriptionPlan    *)
(*   SubscriptionPlanRenewalForm.is_valid   -> ValidateRenewal             *)
(*   ProductForm.is_valid                   -> ValidateProduct             *)
(*   CustomerAgreementAdminForm.populate_subscription_for_auto_applied_... *)
(*                                          -> DeriveAutoApplyChoices      *)
(*                                                                         *)
(* Python values that may be None are modelled as sequences of length at   *)
(* most one: <<>> is None, <<v>> is the value v.  A Python exception       *)
(* escaping a handler is the verdict "Exception".                          *)
(***************************************************************************)
EXTENDS Integers, Sequences, FiniteSets, TLC

VARIABLES
    now,     \* the clock read by localized_utcnow() (forms.py:134, 188)
    store,   \* the stored subscription plans (SubscriptionPlan.objects)
    call,    \* the request being answered: the form's inputs
    result   \* what the form produced: a verdict, or the rebuilt choice field

vars == <<now, store, call, result>>

(***************************************************************************)
(* Bounds of the model.                                                    *)
(***************************************************************************)
\* Timestamps range over 0..MaxTime.
MaxTime == 2
\* The store holds at most MaxPlans subscription plans.
MaxPlans == 2
\* A stored plan expires PlanDuration after it starts.
PlanDuration == 1

(***************************************************************************)
(* Constants imported from subscriptions/constants.py (forms.py:9-13).     *)
(* Their values are not part of the sources at hand; the model only needs  *)
(* MIN_NUM_LICENSES <= MAX_NUM_LICENSES.                                   *)
(***************************************************************************)
MIN_NUM_LICENSES == 1
MAX_NUM_LICENSES == 3

(***************************************************************************)
(* Optional values.                                                        *)
(***************************************************************************)
None == <<>>
Some(v) == <<v>>
IsNone(x) == x = <<>>
Val(x) == x[1]
Opt(S) == {None} \cup {Some(v) : v \in S}

\* Python truthiness of an optional string: None and "" are falsy.
Truthy(x) == ~IsNone(x) /\ Val(x) # ""

Times == 0..MaxTime

(***************************************************************************)
(* Verdicts.                                                               *)
(***************************************************************************)
Accept == [verdict |-> "Accept", field |-> "", message |-> ""]
Reject(f, m) == [verdict |-> "Reject", field |-> f, message |-> m]
\* An exception propagating out of the handler; message is the Python type.
Raise(e) == [verdict |-> "Exception", field |-> "", message |-> e]

(***************************************************************************)
(* SubscriptionPlanForm.is_valid, forms.py:57-104.                         *)
(***************************************************************************)
MsgCatalog == "The subscription must have an enterprise catalog uuid from itself or its customer agreement"
MsgNumLicenses == "Non-test subscriptions may not have more than " \o ToString(MAX_NUM_LICENSES) \o " licenses"
MsgPercentage == "Must be a valid percentage (0-100)."
MsgProduct == "You must specify a product."
MsgSalesforce == "You must specify Salesforce ID for selected product."

\* forms.py:64-67: 'customer_agreement' in changed_data and neither uuid is truthy.
CatalogUuidMissing(c) ==
    /\ c.customer_agreement_changed
    /\ IsNone(c.customer_agreement.default_enterprise_catalog_uuid)
    /\ IsNone(c.enterprise_catalog_uuid)

\* forms.py:74-76.
TooManyLicensesMutant(c) ==
    c.num_licenses > MAX_NUM_LICENSES

TooManyLicenses(c) ==
    c.num_licenses > MAX_NUM_LICENSES /\ ~c.for_internal_use_only

\* forms.py:84: the comparison `revoke_max_percentage > 100` is only evaluated
\* when is_revocation_cap_enabled; on None it raises TypeError.
PercentageRaises(c) ==
    c.is_revocation_cap_enabled /\ IsNone(c.revoke_max_percentage)

PercentageTooHighMutant(c) ==
    /\ c.is_revocation_cap_enabled
    /\ ~IsNone(c.revoke_max_percentage)
    /\ Val(c.revoke_max_percentage) >= 100

PercentageTooHigh(c) ==
    /\ c.is_revocation_cap_enabled
    /\ ~IsNone(c.revoke_max_percentage)
    /\ Val(c.revoke_max_percentage) > 100

\* forms.py:97: product.plan_type.sf_id_required on a product without a
\* plan_type raises AttributeError.
PlanTypeRaises(product) == IsNone(product.plan_type)

SalesforceIdMissing(c) ==
    /\ Val(Val(c.product).plan_type).sf_id_required
    /\ IsNone(c.salesforce_opportunity_id)

ValidateSubscriptionPlanMutant(c) ==
    IF TooManyLicenses(c) THEN Reject("num_licenses", MsgNumLicenses)
    ELSE IF CatalogUuidMissing(c) THEN Reject("enterprise_catalog_uuid", MsgCatalog)
    ELSE IF PercentageRaises(c) THEN Raise("TypeError")
    ELSE IF PercentageTooHigh(c) THEN Reject("revoke_max_percentage", MsgPercentage)
    ELSE IF IsNone(c.product) THEN Reject("product", MsgProduct)
    ELSE IF PlanTypeRaises(Val(c.product)) THEN Raise("AttributeError")
    ELSE IF SalesforceIdMissing(c) THEN Reject("salesforce_opportunity_id", MsgSalesforce)
    ELSE Accept

ValidateSubscriptionPlan(c) ==
    IF CatalogUuidMissing(c) THEN Reject("enterprise_catalog_uuid", MsgCatalog)
    ELSE IF TooManyLicenses(c) THEN Reject("num_licenses", MsgNumLicenses)
    ELSE IF PercentageRaises(c) THEN Raise("TypeError")
    ELSE IF PercentageTooHigh(c) THEN Reject("revoke_max_percentage", MsgPercentage)
    ELSE IF IsNone(c.product) THEN Reject("product", MsgProduct)
    ELSE IF PlanTypeRaises(Val(c.product)) THEN Raise("AttributeError")
    ELSE IF SalesforceIdMissing(c) THEN Reject("salesforce_opportunity_id", MsgSalesforce)
    ELSE Accept

(***************************************************************************)
(* SubscriptionPlanRenewalForm.is_valid, forms.py:123-156.                 *)
(***************************************************************************)
MsgPast == "A subscription renewal can not be scheduled to become effective in the past."
MsgExpiresEarly == "A subscription renewal can not expire before it becomes effective."
MsgBeforePrior == "A subscription renewal can not take effect before a subscription expires."

ValidateRenewalMutant(c, t) ==
    IF c.renewed_expiration_date < c.effective_date
        THEN Reject("renewed_expiration_date", MsgExpiresEarly)
    ELSE IF c.effective_date < t THEN Reject("effective_date", MsgPast)
    ELSE IF IsNone(c.prior_subscription_plan) THEN Raise("AttributeError")
    ELSE IF c.effective_date <= Val(c.prior_subscription_plan).expiration_date
        THEN Reject("effective_date", MsgBeforePrior)
    ELSE Accept

\* t is the value of localized_utcnow() at forms.py:134.
ValidateRenewal(c, t) ==
    IF c.effective_date < t THEN Reject("effective_date", MsgPast)
    ELSE IF c.renewed_expiration_date < c.effective_date
        THEN Reject("renewed_expiration_date", MsgExpiresEarly)
    ELSE IF IsNone(c.prior_subscription_plan) THEN Raise("AttributeError")
    ELSE IF c.effective_date < Val(c.prior_subscription_plan).expiration_date
        THEN Reject("effective_date", MsgBeforePrior)
    ELSE Accept

(***************************************************************************)
(* ProductForm.is_valid, forms.py:234-246.                                 *)
(***************************************************************************)
MsgNetsuite == "You must specify Netsuite ID for selected plan type."

ValidateProduct(c) ==
    IF IsNone(c.plan_type) THEN Raise("AttributeError")
    ELSE IF Val(c.plan_type).ns_id_required /\ ~Truthy(c.netsuite_id)
        THEN Reject("netsuite_id", MsgNetsuite)
    ELSE Accept

(***************************************************************************)
(* CustomerAgreementAdminForm.populate_subscription_for_auto_applied_      *)
(* licenses_choices, forms.py:183-205.                                     *)
(***************************************************************************)
\* forms.py:189-194: SubscriptionPlan.objects.filter(customer_agreement=instance,
\* is_active=True, start_date__lte=now, expiration_date__gte=now).
IsActivePlanMutant(plan, instance, t) ==
    /\ plan.customer_agreement = instance
    /\ plan.is_active
    /\ plan.start_date < t
    /\ plan.expiration_date >= t

IsActivePlan(plan, instance, t) ==
    /\ plan.customer_agreement = instance
    /\ plan.is_active
    /\ plan.start_date <= t
    /\ plan.expiration_date >= t

ActivePlans(plans, instance, t) ==
    SelectSeq(plans, LAMBDA plan : IsActivePlan(plan, instance, t))

\* forms.py:198.
EmptyChoice == <<"", "------">>

\* forms.py:199: (plan.uuid, plan.title).
ChoiceOf(plan) == <<plan.uuid, plan.title>>

\* forms.py:199: [empty_choice] + [(plan.uuid, plan.title) for plan in active_plans].
Choices(active_plans) ==
    <<EmptyChoice>> \o [i \in 1..Len(active_plans) |-> ChoiceOf(active_plans[i])]

\* forms.py:203: empty_choice if not current_plan else (uuid, title).
InitialChoice(current_plan, active_plans) ==
    IF IsNone(current_plan) THEN EmptyChoice ELSE ChoiceOf(Val(current_plan))

\* The rebuilt choice field (forms.py:200-205).
DeriveAutoApplyChoices(plans, instance, current_plan, t) ==
    [choices |-> Choices(ActivePlans(plans, instance, t)),
     initial |-> InitialChoice(current_plan, ActivePlans(plans, instance, t))]

(***************************************************************************)
(* Inputs.                                                                 *)
(***************************************************************************)
PlanTypes == [sf_id_required : BOOLEAN, ns_id_required : BOOLEAN]
\* A product may lack a plan type: nothing in the forms checks for one.
Products == [plan_type : Opt(PlanTypes)]
\* cleaned_data['customer_agreement'] of a plan that passed base validation:
\* the link itself is always present, its default catalog uuid may not be.
Agreements == [default_enterprise_catalog_uuid : Opt({"catalog-of-agreement"})]

\* The values SubscriptionPlanForm.is_valid reads from changed_data,
\* cleaned_data and the instance.  num_licenses is a required integer field
\* with min_value MIN_NUM_LICENSES (forms.py:28-32); salesforce_opportunity_id
\* is a nullable string, null when nothing was entered.
PlanCandidates ==
    [customer_agreement_changed : BOOLEAN,
     customer_agreement : Agreements,
     enterprise_catalog_uuid : Opt({"catalog-of-plan"}),
     num_licenses : {MIN_NUM_LICENSES, MAX_NUM_LICENSES, MAX_NUM_LICENSES + 1},
     for_internal_use_only : BOOLEAN,
     is_revocation_cap_enabled : BOOLEAN,
     revoke_max_percentage : Opt({0, 100, 101}),
     product : Opt(Products),
     salesforce_opportunity_id : Opt({"0061x00000AbCdE"})]

RenewalCandidates ==
    [effective_date : Times,
     renewed_expiration_date : Times,
     prior_subscription_plan : Opt([expiration_date : Times])]

\* netsuite_id is only tested for truthiness (forms.py:239): absent, empty
\* or a value.
ProductCandidates ==
    [plan_type : Opt(PlanTypes),
     netsuite_id : Opt({"", "NS-1001"})]

\* Customer agreements that own stored plans.
AgreementIds == {"agreement-1", "agreement-2"}

PlanUuid(i) == "plan-" \o ToString(i)
PlanTitle(i) == "Plan " \o ToString(i)

\* The i-th plan written to the store.
StoredPlan(i, agreement, active, start) ==
    [uuid |-> PlanUuid(i), title |-> PlanTitle(i),
     customer_agreement |-> agreement, is_active |-> active,
     start_date |-> start, expiration_date |-> start + PlanDuration]

\* The plans of an agreement, in store order.
PlansOf(plans, agreement) ==
    SelectSeq(plans, LAMBDA plan : plan.customer_agreement = agreement)

\* CustomerAgreement.auto_applicable_subscription: the plan of the agreement
\* currently used for auto-applied licenses (an active plan whose term
\* contains t), or None.  The property is handed no time: t is the clock
\* when the property is read.
AutoApplicable(plans, agreement, t) ==
    {None} \cup {Some(PlansOf(plans, agreement)[i]) :
                    i \in {j \in 1..Len(PlansOf(plans, agreement)) :
                        /\ PlansOf(plans, agreement)[j].is_active
                        /\ PlansOf(plans, agreement)[j].start_date <= t
                        /\ t <= PlansOf(plans, agreement)[j].expiration_date}}

(***************************************************************************)
(* State machine.  A form lives for one request: `call` is the request     *)
(* being answered and `result` what the form produced for it.              *)
(***************************************************************************)
Idle == [op |-> "idle"]
NoResult == [verdict |-> "None", field |-> "", message |-> ""]

Init ==
    /\ now = 0
    /\ store = <<>>
    /\ call = Idle
    /\ result = NoResult

\* The clock read by localized_utcnow() advances between requests, and
\* between the reads of a request that rebuilds the choice field.
Tick ==
    /\ call.op \in {"idle", "populate"}
    /\ now < MaxTime
    /\ now' = now + 1
    /\ UNCHANGED <<store, call, result>>

\* The request ends and its form is discarded.
Finish ==
    /\ call.op \notin {"idle", "populate"}
    /\ call' = Idle
    /\ result' = NoResult
    /\ UNCHANGED <<now, store>>

SubmitSubscriptionPlan ==
    \E c \in PlanCandidates :
        /\ call = Idle
        /\ call' = [op |-> "plan", candidate |-> c]
        /\ result' = ValidateSubscriptionPlan(c)
        /\ UNCHANGED <<now, store>>

SubmitRenewal ==
    \E c \in RenewalCandidates :
        /\ call = Idle
        /\ call' = [op |-> "renewal", candidate |-> c]
        /\ result' = ValidateRenewal(c, now)
        /\ UNCHANGED <<now, store>>

SubmitProduct ==
    \E c \in ProductCandidates :
        /\ call = Idle
        /\ call' = [op |-> "product", candidate |-> c]
        /\ result' = ValidateProduct(c)
        /\ UNCHANGED <<now, store>>

\* The persistence layer commits a subscription plan.
SavePlan ==
    /\ call.op \in {"idle", "populate"}
    /\ Len(store) < MaxPlans
    /\ \E agreement \in AgreementIds, active \in BOOLEAN, start \in Times :
           store' = Append(store, StoredPlan(Len(store) + 1, agreement, active, start))
    /\ UNCHANGED <<now, call, result>>

\* CustomerAgreementAdminForm.__init__ with an instance (forms.py:175-181)
\* enters populate_subscription_for_auto_applied_licenses_choices: the clock
\* is read (forms.py:188) and the queryset is built, not yet evaluated
\* (forms.py:189-194).
BeginPopulate ==
    \E instance \in AgreementIds :
        /\ call = Idle
        /\ call' = [op |-> "populate", pc |-> "current_plan",
                    instance |-> instance, t |-> now, current_plan |-> None]
        /\ UNCHANGED <<now, store, result>>

\* forms.py:196: instance.auto_applicable_subscription is read on its own,
\* against the store and the clock of that moment.
ReadCurrentPlan ==
    /\ call.op = "populate"
    /\ call.pc = "current_plan"
    /\ \E current_plan \in AutoApplicable(store, call.instance, now) :
           call' = [call EXCEPT !.pc = "choices", !.current_plan = current_plan]
    /\ UNCHANGED <<now, store, result>>

\* forms.py:198-205: the queryset is evaluated against the store of this
\* moment with the time read at line 188, and the field is rebuilt.
BuildChoices ==
    /\ call.op = "populate"
    /\ call.pc = "choices"
    /\ result' = DeriveAutoApplyChoices(store, call.instance, call.current_plan, call.t)
    /\ call' = [call EXCEPT !.op = "choices", !.pc = "done"]
    /\ UNCHANGED <<now, store>>

Next == Tick \/ SubmitSubscriptionPlan \/ SubmitRenewal \/ SubmitProduct \/ Finish

Spec == Init /\ [][Next]_vars

NextChoices ==
    Tick \/ SavePlan \/ BeginPopulate \/ ReadCurrentPlan \/ BuildChoices \/ Finish

SpecChoices == Init /\ [][NextChoices]_vars

(***************************************************************************)
(* The documented rules, as predicates on a candidate.                     *)
(***************************************************************************)
RejectedOn(f) == result.verdict = "Reject" /\ result.field = f

\* Rule 1: the agreement link was set on this submission and no catalog uuid
\* is available from the plan or from the agreement.
Rule1(c) ==
    /\ c.customer_agreement_changed
    /\ c.enterprise_catalog_uuid = None
    /\ c.customer_agreement.default_enterprise_catalog_uuid = None
\* Rule 2: too many licenses for a plan that is not for internal use.
Rule2(c) == c.num_licenses > MAX_NUM_LICENSES /\ ~c.for_internal_use_only
\* The candidate carries a revoke_max_percentage above 100.
Above100(c) == c.revoke_max_percentage # None /\ c.revoke_max_percentage[1] > 100
\* Rule 3: revocation cap enabled and revoke_max_percentage above 100.
Rule3(c) == c.is_revocation_cap_enabled /\ Above100(c)
\* Rule 4: no product.
Rule4(c) == c.product = None
\* The product's plan type requires a Salesforce ID.
SfIdRequired(c) ==
    /\ c.product # None
    /\ c.product[1].plan_type # None
    /\ c.product[1].plan_type[1].sf_id_required
\* Rule 5: Salesforce ID required and absent (null).
Rule5(c) == SfIdRequired(c) /\ c.salesforce_opportunity_id = None

\* The rule chain gets past rules 1-2, 1-3 and 1-4 without a verdict.
PassesRules12(c) == ~Rule1(c) /\ ~Rule2(c)
PassesRules13(c) ==
    /\ PassesRules12(c)
    /\ ~(c.is_revocation_cap_enabled /\ c.revoke_max_percentage = None)
    /\ ~Rule3(c)
PassesRules14(c) == PassesRules13(c) /\ ~Rule4(c)

(***************************************************************************)
(* C1                                                                      *)
(***************************************************************************)
RenewalAcceptable(c, t) ==
    /\ t <= c.effective_date
    /\ c.effective_date <= c.renewed_expiration_date
    /\ c.prior_subscription_plan # None
    /\ c.prior_subscription_plan[1].expiration_date <= c.effective_date

\* C1: a renewal is accepted iff now <= effective_date <=
\* renewed_expiration_date and prior_plan.expiration_date <= effective_date;
\* a rejection names the earliest violated rule in the order (1) effective
\* date in the past, (2) expiry before effective date, (3) effective date
\* before the prior plan expires; an effective date in the past is always
\* rejected on effective_date with the "in the past" message.
C1_RenewalContract ==
    call.op = "renewal" =>
        LET c == call.candidate IN
        /\ (result = Accept) <=> RenewalAcceptable(c, now)
        /\ c.effective_date < now => result = Reject("effective_date", MsgPast)
        /\ (c.effective_date >= now /\ c.renewed_expiration_date < c.effective_date)
               => result = Reject("renewed_expiration_date", MsgExpiresEarly)
        /\ (/\ c.effective_date >= now
            /\ c.renewed_expiration_date >= c.effective_date
            /\ c.prior_subscription_plan # None
            /\ c.effective_date < c.prior_subscription_plan[1].expiration_date)
               => result = Reject("effective_date", MsgBeforePrior)
        /\ result.verdict = "Reject" =>
               \/ c.effective_date < now
               \/ c.renewed_expiration_date < c.effective_date
               \/ /\ c.prior_subscription_plan # None
                  /\ c.effective_date < c.prior_subscription_plan[1].expiration_date

\* A renewal violating all three rules at once, rejected for the first.
C1_Witness ==
    /\ call.op = "renewal"
    /\ call.candidate.effective_date < now
    /\ call.candidate.renewed_expiration_date < call.candidate.effective_date
    /\ call.candidate.prior_subscription_plan # None
    /\ call.candidate.effective_date
           < call.candidate.prior_subscription_plan[1].expiration_date
    /\ result = Reject("effective_date", MsgPast)

(***************************************************************************)
(* C2                                                                      *)
(***************************************************************************)
\* C2 as stated: every candidate that is not for internal use is rejected on
\* num_licenses iff num_licenses > MAX_NUM_LICENSES, and num_licenses never
\* rejects a candidate for internal use.
C2_AsStated ==
    call.op = "plan" =>
        LET c == call.candidate IN
        /\ ~c.for_internal_use_only =>
               (RejectedOn("num_licenses") <=> c.num_licenses > MAX_NUM_LICENSES)
        /\ c.for_internal_use_only => ~RejectedOn("num_licenses")

\* C2 amended: a candidate that is not for internal use and is not rejected
\* by rule 1 is rejected on num_licenses iff num_licenses > MAX_NUM_LICENSES,
\* with the documented message; for an internal-use candidate num_licenses
\* never rejects and the verdict is the one of the later rules, whatever
\* num_licenses is.
C2_NumLicenses ==
    call.op = "plan" =>
        LET c == call.candidate IN
        /\ (~c.for_internal_use_only /\ ~Rule1(c)) =>
               /\ RejectedOn("num_licenses") <=> c.num_licenses > MAX_NUM_LICENSES
               /\ RejectedOn("num_licenses") => result.message = MsgNumLicenses
        /\ Rule1(c) => ~RejectedOn("num_licenses")
        /\ c.for_internal_use_only =>
               /\ ~RejectedOn("num_licenses")
               /\ result = ValidateSubscriptionPlan(
                               [c EXCEPT !.num_licenses = MIN_NUM_LICENSES])

\* One license too many on an ordinary plan, and the same on an internal plan
\* that goes on to be accepted.
C2_Witness ==
    /\ call.op = "plan"
    /\ call.candidate.num_licenses = MAX_NUM_LICENSES + 1
    /\ \/ ~call.candidate.for_internal_use_only /\ RejectedOn("num_licenses")
       \/ call.candidate.for_internal_use_only /\ result = Accept

(***************************************************************************)
(* C3                                                                      *)
(***************************************************************************)
\* C3 as stated: every candidate with the revocation cap enabled is rejected
\* on revoke_max_percentage iff the value exceeds 100.
C3_AsStated ==
    (call.op = "plan" /\ call.candidate.is_revocation_cap_enabled) =>
        (RejectedOn("revoke_max_percentage") <=> Above100(call.candidate))

\* C3 amended: a candidate with the revocation cap enabled that is not
\* rejected by rules 1-2 is rejected on revoke_max_percentage iff the value
\* exceeds 100; a value in 0..100, or a disabled cap, never rejects on
\* revoke_max_percentage.
C3_Percentage ==
    call.op = "plan" =>
        LET c == call.candidate IN
        /\ (c.is_revocation_cap_enabled /\ PassesRules12(c)) =>
               (RejectedOn("revoke_max_percentage") <=> Above100(c))
        /\ RejectedOn("revoke_max_percentage") =>
               /\ c.is_revocation_cap_enabled
               /\ Above100(c)
               /\ result.message = MsgPercentage

\* 100 percent passes rule 3 with the cap enabled.
C3_Witness ==
    /\ call.op = "plan"
    /\ call.candidate.is_revocation_cap_enabled
    /\ call.candidate.revoke_max_percentage = Some(100)
    /\ result = Accept

(***************************************************************************)
(* C9                                                                      *)
(***************************************************************************)
\* C9: a plan is rejected on enterprise_catalog_uuid iff the agreement link
\* changed on this submission and neither the plan's own catalog uuid nor
\* the agreement's default is present; without a changed link a missing
\* catalog uuid never rejects.
C9_CatalogUuid ==
    call.op = "plan" =>
        LET c == call.candidate IN
        /\ RejectedOn("enterprise_catalog_uuid") <=> Rule1(c)
        /\ Rule1(c) => result = Reject("enterprise_catalog_uuid", MsgCatalog)

\* A candidate violating rules 1 and 2 together, rejected for rule 1.
C9_Witness ==
    /\ call.op = "plan"
    /\ Rule1(call.candidate)
    /\ Rule2(call.candidate)
    /\ result = Reject("enterprise_catalog_uuid", MsgCatalog)

(***************************************************************************)
(* C10                                                                     *)
(***************************************************************************)
\* C10: past rules 1-4 (so a product is set) the plan is rejected on
\* salesforce_opportunity_id iff the product's plan type requires a
\* Salesforce ID and the ID is absent (null or the empty string), and is
\* accepted otherwise.
C10_AsStated ==
    (call.op = "plan" /\ PassesRules14(call.candidate)) =>
        LET c == call.candidate
            absent == c.salesforce_opportunity_id \in {None, Some("")}
        IN  /\ RejectedOn("salesforce_opportunity_id") <=> (SfIdRequired(c) /\ absent)
            /\ ~(SfIdRequired(c) /\ absent) => result = Accept

(***************************************************************************)
(* C4                                                                      *)
(***************************************************************************)
\* The stored plans that are active, current at the time the request read
\* the clock (its `now`) and linked to the agreement of the request.
MatchingPlans ==
    {store[i] : i \in {j \in 1..Len(store) :
        /\ store[j].is_active
        /\ store[j].start_date <= call.t
        /\ call.t <= store[j].expiration_date
        /\ store[j].customer_agreement = call.instance}}

\* C4: the options list starts with the single empty option and continues
\* with exactly one (uuid, title) pair per stored plan that is active,
\* current and linked to the agreement: none missing, none extra.
C4_ChoicesExact ==
    call.op = "choices" =>
        LET rest == SubSeq(result.choices, 2, Len(result.choices)) IN
        /\ Len(result.choices) >= 1
        /\ result.choices[1] = EmptyChoice
        /\ \A i \in 1..Len(rest) : rest[i] # EmptyChoice
        /\ {rest[i] : i \in 1..Len(rest)}
               = {<<plan.uuid, plan.title>> : plan \in MatchingPlans}
        /\ Len(rest) = Cardinality(MatchingPlans)

\* Two stored plans of which exactly one is offered.
C4_Witness ==
    /\ call.op = "choices"
    /\ Len(store) = 2
    /\ Len(result.choices) = 2
    /\ \E i \in 1..2 : /\ store[i].customer_agreement = call.instance
                       /\ store[i].is_active
                       /\ store[i].expiration_date < call.t

(***************************************************************************)
(* C5                                                                      *)
(***************************************************************************)
ChoiceSet == {result.choices[i] : i \in 1..Len(result.choices)}

\* C5: the agreement's auto-applicable plan is pre-selected when it is among
\* the returned plans and the empty option otherwise, so the pre-selected
\* option is always one of the options.
C5_AsStated ==
    call.op = "choices" =>
        /\ (call.current_plan # None /\ call.current_plan[1] \in MatchingPlans)
               => result.initial = <<call.current_plan[1].uuid, call.current_plan[1].title>>
        /\ ~(call.current_plan # None /\ call.current_plan[1] \in MatchingPlans)
               => result.initial = EmptyChoice
        /\ result.initial \in ChoiceSet

(***************************************************************************)
(* C6                                                                      *)
(***************************************************************************)
\* C6: a product is rejected on netsuite_id iff its plan type requires a
\* Netsuite ID and netsuite_id is empty or absent; in every other case it is
\* accepted.
C6_AsStated ==
    call.op = "product" =>
        LET c == call.candidate
            required == c.plan_type # None /\ c.plan_type[1].ns_id_required
            empty == c.netsuite_id \in {None, Some("")}
        IN  /\ RejectedOn("netsuite_id") <=> (required /\ empty)
            /\ ~(required /\ empty) => result = Accept

(***************************************************************************)
(* C7                                                                      *)
(***************************************************************************)
\* C7: the plan rules are evaluated in the order enterprise_catalog_uuid,
\* num_licenses, revoke_max_percentage, product, salesforce_opportunity_id;
\* a rejection reports the one (field, message) pair of the earliest rule
\* the candidate violates, and the candidate is accepted iff it violates no
\* rule.
C7_AsStated ==
    call.op = "plan" =>
        LET c == call.candidate IN
        result =
            IF Rule1(c) THEN Reject("enterprise_catalog_uuid", MsgCatalog)
            ELSE IF Rule2(c) THEN Reject("num_licenses", MsgNumLicenses)
            ELSE IF Rule3(c) THEN Reject("revoke_max_percentage", MsgPercentage)
            ELSE IF Rule4(c) THEN Reject("product", MsgProduct)
            ELSE IF Rule5(c) THEN Reject("salesforce_opportunity_id", MsgSalesforce)
            ELSE Accept

(***************************************************************************)
(* C8                                                                      *)
(***************************************************************************)
\* C8: every validation ends in Accept or Reject(field, message), never in an
\* exception, also when a related record or value is missing; a candidate
\* without a product that violates none of rules 1-3 is rejected on product.
C8_AsStated ==
    call.op \in {"plan", "renewal", "product"} =>
        /\ result.verdict \in {"Accept", "Reject"}
        /\ (/\ call.op = "plan"
            /\ call.candidate.product = None
            /\ ~Rule1(call.candidate)
            /\ ~Rule2(call.candidate)
            /\ ~Rule3(call.candidate)) => RejectedOn("product")

====
